---- MODULE Spec2Model ----
(***************************************************************************)
(* A model of pye3d's Detector3D (src/pye3d/detector_3d.py): the refit     *)
(* schedule _ModelUpdateSchedule and the per-frame pipeline                *)
(* update_and_detect with its three model tiers.                           *)
(*                                                                         *)
(* Time is counted in whole ticks.  None is modelled by -1 (timestamps are *)
(* never negative).                                                        *)
(***************************************************************************)
EXTENDS Integers, Sequences, FiniteSets, TLC

VARIABLES
    \* ---- one _ModelUpdateSchedule driven on its own (SpecSchedule) ----
    sched,          \* the schedule object
    sched_pre,      \* the schedule object as it was before the last call
    sched_last,     \* the last call made on it, with what it returned
    sched_prev,     \* the call made before that one
    sched_hist,     \* what has been observed of the calls so far
    \* ---- one Detector3D fed frame by frame (SpecDetector) ----
    det,            \* the detector object: models, schedules, filter
    pc,             \* where update_and_detect stands
    now,            \* timestamp of the latest frame
    n_frames,       \* frames passed to update_and_detect so far
    observation,    \* the frame's Observation
    pupil_circle,   \* what _predict_pupil_circle returned for the frame
    result,         \* the record update_and_detect returned for the frame
    cycle,          \* what happened while the frame was processed
    \* ---- the detector's mode (SpecMode) ----
    long_term_mode, \* Detector3D._long_term_mode
    mode_call,      \* the last assignment to long_term_mode
    \* ---- long-term refits on a background worker (SpecAsync) ----
    bg,
    \* ---- two legacy TwoSphereModel objects in one process (SpecLegacy) ----
    legacy,
    \* ---- observation storages driven on their own (SpecStorage) ----
    stores

schedVars == <<sched, sched_pre, sched_last, sched_prev, sched_hist>>

detVars == <<det, pc, now, n_frames, observation, pupil_circle, result, cycle>>

modeVars == <<long_term_mode, mode_call>>

restVars == <<modeVars, bg, legacy, stores>>

vars == <<schedVars, detVars, restVars>>

None == -1

(***************************************************************************)
(* Bounds of the schedule model.                                           *)
(***************************************************************************)
MaxTime == 5
MaxCalls == 5
MaxInterval == 2
MaxWarmup == 2

Times == 0..MaxTime

(***************************************************************************)
(* _ModelUpdateSchedule                                                    *)
(***************************************************************************)
ModelUpdateSchedule(update_interval, warmup_duration) ==
    [update_interval |-> update_interval,
     warmup_duration |-> warmup_duration,
     warmup_start    |-> None,
     paused          |-> FALSE,
     last_update     |-> None]

\* A pause() that also resets the interval timer.
pause_resetting(s) == [s EXCEPT !.paused = TRUE, !.last_update = None]

pause(s) == [s EXCEPT !.paused = TRUE]

\* A resume() that keeps last_update.
resume_keeping(s) == [s EXCEPT !.paused = FALSE]

\* resume() that starts the warmup over.
resume_rewarming(s) ==
    [s EXCEPT !.paused = FALSE, !.last_update = None, !.warmup_start = None]

resume(s) == [s EXCEPT !.paused = FALSE, !.last_update = None]

\* is_update_due without the warmup branch.
is_update_due_no_warmup(s, current_time) ==
    IF s.paused
      THEN [ret |-> FALSE, s |-> s]
    ELSE IF s.warmup_start = None
      THEN [ret |-> TRUE, s |-> [s EXCEPT !.warmup_start = current_time]]
    ELSE IF s.last_update = None
      THEN [ret |-> TRUE, s |-> [s EXCEPT !.last_update = current_time]]
    ELSE IF current_time - s.last_update > s.update_interval
      THEN [ret |-> TRUE, s |-> [s EXCEPT !.last_update = current_time]]
    ELSE [ret |-> FALSE, s |-> s]

\* is_update_due with >= for > in the interval test.
is_update_due_ge(s, current_time) ==
    IF s.paused
      THEN [ret |-> FALSE, s |-> s]
    ELSE IF s.warmup_start = None
      THEN [ret |-> TRUE, s |-> [s EXCEPT !.warmup_start = current_time]]
    ELSE IF current_time - s.warmup_start < s.warmup_duration
      THEN [ret |-> TRUE, s |-> s]
    ELSE IF s.last_update = None
      THEN [ret |-> TRUE, s |-> [s EXCEPT !.last_update = current_time]]
    ELSE IF current_time - s.last_update >= s.update_interval
      THEN [ret |-> TRUE, s |-> [s EXCEPT !.last_update = current_time]]
    ELSE [ret |-> FALSE, s |-> s]

\* is_update_due that does not record the first steady-phase update.
is_update_due_unrecorded(s, current_time) ==
    IF s.paused
      THEN [ret |-> FALSE, s |-> s]
    ELSE IF s.warmup_start = None
      THEN [ret |-> TRUE, s |-> [s EXCEPT !.warmup_start = current_time]]
    ELSE IF current_time - s.warmup_start < s.warmup_duration
      THEN [ret |-> TRUE, s |-> s]
    ELSE IF s.last_update = None
      THEN [ret |-> TRUE, s |-> s]
    ELSE IF current_time - s.last_update > s.update_interval
      THEN [ret |-> TRUE, s |-> [s EXCEPT !.last_update = current_time]]
    ELSE [ret |-> FALSE, s |-> s]

\* is_update_due that starts the warmup before it looks at _paused.
is_update_due_paused_late(s, current_time) ==
    IF s.warmup_start = None
      THEN [ret |-> ~s.paused, s |-> [s EXCEPT !.warmup_start = current_time]]
    ELSE IF s.paused
      THEN [ret |-> FALSE, s |-> s]
    ELSE IF current_time - s.warmup_start < s.warmup_duration
      THEN [ret |-> TRUE, s |-> s]
    ELSE IF s.last_update = None
      THEN [ret |-> TRUE, s |-> [s EXCEPT !.last_update = current_time]]
    ELSE IF current_time - s.last_update > s.update_interval
      THEN [ret |-> TRUE, s |-> [s EXCEPT !.last_update = current_time]]
    ELSE [ret |-> FALSE, s |-> s]

\* is_update_due returns a value and may assign fields: ret is the value
\* returned, s the object after the call.
is_update_due(s, current_time) ==
    IF s.paused
      THEN [ret |-> FALSE, s |-> s]
    ELSE IF s.warmup_start = None
      THEN [ret |-> TRUE, s |-> [s EXCEPT !.warmup_start = current_time]]
    ELSE IF current_time - s.warmup_start < s.warmup_duration
      THEN [ret |-> TRUE, s |-> s]
    ELSE IF s.last_update = None
      THEN [ret |-> TRUE, s |-> [s EXCEPT !.last_update = current_time]]
    ELSE IF current_time - s.last_update > s.update_interval
      THEN [ret |-> TRUE, s |-> [s EXCEPT !.last_update = current_time]]
    ELSE [ret |-> FALSE, s |-> s]

(***************************************************************************)
(* The schedule driven by an arbitrary caller: any order of pause, resume  *)
(* and is_update_due, with any timestamps.  The history records, apart     *)
(* from the object's own fields, what a caller can observe.                *)
(***************************************************************************)
NoCall == [name |-> "none", t |-> None, ret |-> FALSE, phase |-> "none",
           true_before |-> None, steady_true_before |-> None,
           first_steady |-> FALSE]

InitHist ==
    [calls       |-> 0,      \* calls made so far
     first_time  |-> None,   \* time of the first is_update_due call made while not paused
     last_true   |-> None,   \* time of the last call that returned true
     steady_true |-> None,   \* same, among steady-phase calls since the last resume()
     steady_seen |-> FALSE,  \* a steady-phase call was made while not paused
     paused      |-> FALSE,  \* pause() was called and resume() not since
     only_due    |-> TRUE,   \* neither pause() nor resume() was ever called
     clock       |-> None,   \* the latest timestamp passed
     monotone    |-> TRUE]   \* the timestamps passed so far never decreased

\* The phase a call at time t falls in, from the caller's side.
PhaseOf(h, t) ==
    IF h.paused THEN "paused"
    ELSE IF h.first_time = None THEN "cold"
    ELSE IF t - h.first_time < sched.warmup_duration THEN "warmup"
    ELSE "steady"

\* The detector variables while no detector is fed.
IdleDetector ==
    [det |-> <<>>, pc |-> "off", now |-> 0, n_frames |-> 0, observation |-> <<>>,
     pupil_circle |-> <<>>, result |-> <<>>, cycle |-> <<>>]

\* A schedule constructed with any update_interval and warmup_duration.
InitSchedule ==
    /\ \E ui \in 0..MaxInterval, wd \in 1..MaxWarmup :
          sched = ModelUpdateSchedule(ui, wd)
    /\ sched_pre = sched
    /\ sched_last = NoCall
    /\ sched_prev = NoCall
    /\ sched_hist = InitHist
    /\ det = IdleDetector.det
    /\ pc = IdleDetector.pc
    /\ now = IdleDetector.now
    /\ n_frames = IdleDetector.n_frames
    /\ observation = IdleDetector.observation
    /\ pupil_circle = IdleDetector.pupil_circle
    /\ result = IdleDetector.result
    /\ cycle = IdleDetector.cycle
    /\ long_term_mode = "off"
    /\ mode_call = <<>>
    /\ bg = <<>>
    /\ legacy = <<>>
    /\ stores = <<>>

CallPause ==
    /\ sched_hist.calls < MaxCalls
    /\ sched' = pause(sched)
    /\ sched_pre' = sched
    /\ sched_prev' = sched_last
    /\ sched_last' = [NoCall EXCEPT !.name = "pause"]
    /\ sched_hist' = [sched_hist EXCEPT !.calls = @ + 1, !.paused = TRUE,
                                        !.only_due = FALSE]
    /\ UNCHANGED <<detVars, restVars>>

CallResume ==
    /\ sched_hist.calls < MaxCalls
    /\ sched' = resume(sched)
    /\ sched_pre' = sched
    /\ sched_prev' = sched_last
    /\ sched_last' = [NoCall EXCEPT !.name = "resume"]
    /\ sched_hist' = [sched_hist EXCEPT !.calls = @ + 1, !.paused = FALSE,
                                        !.only_due = FALSE,
                                        !.steady_true = None]
    /\ UNCHANGED <<detVars, restVars>>

CallIsUpdateDue ==
    /\ sched_hist.calls < MaxCalls
    /\ \E t \in Times :
         LET r     == is_update_due(sched, t)
             phase == PhaseOf(sched_hist, t)
         IN /\ sched' = r.s
            /\ sched_pre' = sched
            /\ sched_prev' = sched_last
            /\ sched_last' =
                 [name |-> "due", t |-> t, ret |-> r.ret, phase |-> phase,
                  true_before |-> sched_hist.last_true,
                  steady_true_before |-> sched_hist.steady_true,
                  first_steady |-> (phase = "steady" /\ ~sched_hist.steady_seen)]
            /\ sched_hist' =
                 [sched_hist EXCEPT
                    !.calls = @ + 1,
                    !.first_time = IF @ = None /\ ~sched_hist.paused THEN t ELSE @,
                    !.last_true = IF r.ret THEN t ELSE @,
                    !.steady_true = IF r.ret /\ phase = "steady" THEN t ELSE @,
                    !.steady_seen = @ \/ phase = "steady",
                    !.clock = t,
                    !.monotone = @ /\ (sched_hist.clock = None \/ sched_hist.clock <= t)]
    /\ UNCHANGED <<detVars, restVars>>

(***************************************************************************)
(* Detector3D.  Confidences and thresholds are counted in hundredths       *)
(* (0.7 is 70), times in seconds.                                          *)
(***************************************************************************)

\* Bounds of the detector model.
MaxFrames == 3

\* Detector3D.__init__: the defaults of the settings.
threshold_swirski == 70
threshold_kalman == 98
threshold_short_term == 80
threshold_long_term == 98
long_term_buffer_size == 30
long_term_forget_time == 5
long_term_forget_observations == 300
model_update_interval_long_term == 1
model_update_interval_ult_long_term == 10
model_warmup_duration == 5

\* Detector3D._initialize_models: the settings written out in the code.
short_term_buffer_length == 10
n_bins_horizontal == 10
ultra_long_term_forget_time == 60

Tiers == {"short", "long", "ultra_long"}

(***************************************************************************)
(* The frames fed to the detector: what the 2D detector reports (the       *)
(* ellipse's axes in pixels, its confidence, the bin its gaze direction    *)
(* falls in), how long after the previous frame, and what the collaborators*)
(* outside the detector do in the frame.                                   *)
(***************************************************************************)
Gaps == {1, 6}

PupilData ==
    {[axes |-> <<2, 4>>, confidence |-> c, gaze_bin |-> 0] : c \in {70, 90, 99}}
    \cup {[axes |-> <<0, 4>>, confidence |-> c, gaze_bin |-> 0] : c \in {70, 99}}

\* What the image and the filter give the surface search: whether the
\* filter's guess is the null circle, the number of edge pixels get_edges
\* finds, whether search_on_sphere comes back with a null circle, whether
\* its circle projects into the image, and len(final_edges) / circumference
\* in hundredths.
SearchEnvs ==
    {[guess_null |-> TRUE,  edges |-> 0, circle_null |-> FALSE, projects |-> TRUE,  ratio |-> 0],
     [guess_null |-> FALSE, edges |-> 0, circle_null |-> FALSE, projects |-> TRUE,  ratio |-> 0],
     [guess_null |-> FALSE, edges |-> 3, circle_null |-> TRUE,  projects |-> TRUE,  ratio |-> 0],
     [guess_null |-> FALSE, edges |-> 3, circle_null |-> FALSE, projects |-> FALSE, ratio |-> 0],
     [guess_null |-> FALSE, edges |-> 3, circle_null |-> FALSE, projects |-> TRUE,  ratio |-> 50],
     [guess_null |-> FALSE, edges |-> 3, circle_null |-> FALSE, projects |-> TRUE,  ratio |-> 150]}

\* The refit that fails numerically in the cycle, if it is run.
Failures == {"none"} \cup Tiers

(***************************************************************************)
(* Geometry, by provenance: a circle's center, normal and radius are named *)
(* by the computation that produced them, <<what, tier>>.                  *)
(***************************************************************************)
Zero == <<"zero", "">>

NullCircle == [null |-> TRUE, center |-> Zero, normal |-> Zero, radius |-> Zero]

Circle(center, normal, radius) ==
    [null |-> (normal = Zero /\ radius = Zero),
     center |-> center, normal |-> normal, radius |-> radius]

(***************************************************************************)
(* Observation: unprojection fails on a degenerate ellipse (an axis <= 0); *)
(* the observation is then invalid and has no circle pair.                 *)
(***************************************************************************)
Observation(minor_axis, major_axis, confidence, timestamp, gaze_bin) ==
    [invalid       |-> (minor_axis <= 0 \/ major_axis <= 0),
     confidence    |-> confidence,
     confidence_2d |-> confidence,
     timestamp     |-> timestamp,
     gaze_bin      |-> gaze_bin]

NoObservation == Observation(0, 0, 0, None, 0)

\* Detector3D._extract_observation: the axes are halved.
extract_observation(pupil_datum, timestamp) ==
    Observation(pupil_datum.axes[1] \div 2, pupil_datum.axes[2] \div 2,
                pupil_datum.confidence, timestamp, pupil_datum.gaze_bin)

(***************************************************************************)
(* Observation storages.  A storage keeps, in insertion order, the         *)
(* timestamp and bin of each observation it retains.                       *)
(***************************************************************************)
BufferedObservationStorage(confidence_threshold, buffer_length) ==
    [kind |-> "buffered",
     confidence_threshold |-> confidence_threshold,
     buffer_length |-> buffer_length,
     forget_min_observations |-> 0,
     forget_min_time |-> 0,
     obs |-> <<>>]

BinBufferedObservationStorage(confidence_threshold, bin_buffer_length, forget_min_observations, forget_min_time) ==
    [kind |-> "binned",
     confidence_threshold |-> confidence_threshold,
     buffer_length |-> bin_buffer_length,
     forget_min_observations |-> forget_min_observations,
     forget_min_time |-> forget_min_time,
     obs |-> <<>>]

Entry(o) == [timestamp |-> o.timestamp, gaze_bin |-> o.gaze_bin]

\* seq without its element at position i
RemoveAt(seq, i) == [j \in 1..(Len(seq) - 1) |-> IF j < i THEN seq[j] ELSE seq[j + 1]]

\* position of the oldest element of seq in bin b (0: none)
OldestInBin(seq, b) ==
    LET at == {i \in 1..Len(seq) : seq[i].gaze_bin = b}
    IN IF at = {} THEN 0 ELSE CHOOSE i \in at : \A j \in at : i <= j

InBin(seq, b) == Cardinality({i \in 1..Len(seq) : seq[i].gaze_bin = b})

\* Forgetting on age alone, whatever the count.
RECURSIVE forget_on_age_alone(_, _, _, _)
forget_on_age_alone(seq, current_time, forget_min_observations, forget_min_time) ==
    IF /\ Len(seq) > 0
       /\ seq[1].timestamp < current_time - forget_min_time
      THEN forget_on_age_alone(Tail(seq), current_time, forget_min_observations,
                               forget_min_time)
      ELSE seq

\* The forgetting rule: the oldest observation goes while the storage holds
\* more than forget_min_observations and that observation is older than
\* forget_min_time.
RECURSIVE Forget(_, _, _, _)
Forget(seq, current_time, forget_min_observations, forget_min_time) ==
    IF /\ Len(seq) > forget_min_observations
       /\ seq[1].timestamp < current_time - forget_min_time
      THEN Forget(Tail(seq), current_time, forget_min_observations, forget_min_time)
      ELSE seq

\* A full buffered storage that gives up its newest observation.
storage_add_evict_newest(st, o) ==
    IF o.invalid \/ o.confidence < st.confidence_threshold
      THEN st
    ELSE IF st.kind = "buffered"
      THEN [st EXCEPT !.obs = IF Len(@) >= st.buffer_length
                                THEN Append(SubSeq(@, 1, Len(@) - 1), Entry(o))
                                ELSE Append(@, Entry(o))]
    ELSE LET kept == IF InBin(st.obs, o.gaze_bin) >= st.buffer_length
                       THEN RemoveAt(st.obs, OldestInBin(st.obs, o.gaze_bin))
                       ELSE st.obs
         IN [st EXCEPT !.obs = Forget(Append(kept, Entry(o)), o.timestamp,
                                      st.forget_min_observations,
                                      st.forget_min_time)]

\* A storage that takes every valid observation, whatever its confidence.
storage_add_any_confidence(st, o) ==
    IF o.invalid
      THEN st
    ELSE IF st.kind = "buffered"
      THEN [st EXCEPT !.obs = IF Len(@) >= st.buffer_length
                                THEN Append(Tail(@), Entry(o))
                                ELSE Append(@, Entry(o))]
    ELSE LET kept == IF InBin(st.obs, o.gaze_bin) >= st.buffer_length
                       THEN RemoveAt(st.obs, OldestInBin(st.obs, o.gaze_bin))
                       ELSE st.obs
         IN [st EXCEPT !.obs = Forget(Append(kept, Entry(o)), o.timestamp,
                                      st.forget_min_observations,
                                      st.forget_min_time)]

storage_add(st, o) ==
    IF o.invalid \/ o.confidence < st.confidence_threshold
      THEN st
    ELSE IF st.kind = "buffered"
      THEN [st EXCEPT !.obs = IF Len(@) >= st.buffer_length
                                THEN Append(Tail(@), Entry(o))
                                ELSE Append(@, Entry(o))]
    ELSE LET kept == IF InBin(st.obs, o.gaze_bin) >= st.buffer_length
                       THEN RemoveAt(st.obs, OldestInBin(st.obs, o.gaze_bin))
                       ELSE st.obs
         IN [st EXCEPT !.obs = Forget(Append(kept, Entry(o)), o.timestamp,
                                      st.forget_min_observations,
                                      st.forget_min_time)]

(***************************************************************************)
(* The model tiers.  A sphere center is named by what it was fitted from:  *)
(* the observations retained at the time and the prior (none: <<>>).       *)
(***************************************************************************)
InitialCenter == [initial |-> TRUE, obs |-> <<>>, prior |-> <<>>]

TwoSphereModel(storage) ==
    [storage |-> storage, sphere_center |-> InitialCenter]

add_observation(model, o) == [model EXCEPT !.storage = storage_add(@, o)]

n_observations(model) == Len(model.storage.obs)

\* estimate_sphere_center when the solver converges; when it does not, the
\* call raises before it assigns anything.
estimate_sphere_center(model, prior) ==
    [model EXCEPT !.sphere_center =
        [initial |-> FALSE, obs |-> model.storage.obs, prior |-> prior]]

\* The refraction-corrected sphere center of a model.
corrected_sphere_center(model) == <<"corrected", model.sphere_center>>

\* predict_pupil_circle: the null circle for an invalid observation.
predict_pupil_circle(tier, model, o) ==
    IF o.invalid
      THEN NullCircle
      ELSE Circle(<<"predict", tier>>, <<"predict", tier>>, <<"predict", tier>>)

\* TwoSphereModel.apply_refraction_correction: the circle is built from the
\* regressor's output, whatever circle comes in.
apply_refraction_correction(model, circle) ==
    Circle(<<"refraction", "long">>, <<"refraction", "long">>, <<"refraction", "long">>)

(***************************************************************************)
(* The temporal filter: the time of its last predict and of its last       *)
(* correct.                                                                *)
(***************************************************************************)
KalmanFilter == [predicted_at |-> None, corrected_at |-> None]

kalman_predict(kf, timestamp) == [kf EXCEPT !.predicted_at = timestamp]

kalman_correct(kf) == [kf EXCEPT !.corrected_at = kf.predicted_at]

(***************************************************************************)
(* Detector3D.reset: the object after construction.                        *)
(***************************************************************************)
Detector3D ==
    [short_term_model |->
        TwoSphereModel(BufferedObservationStorage(threshold_short_term, short_term_buffer_length)),
     long_term_model |->
        TwoSphereModel(BinBufferedObservationStorage(
            threshold_long_term, long_term_buffer_size,
            long_term_forget_observations, long_term_forget_time)),
     ultra_long_term_model |->
        TwoSphereModel(BinBufferedObservationStorage(
            threshold_long_term, long_term_buffer_size,
            2 * long_term_forget_observations, ultra_long_term_forget_time)),
     long_term_schedule |->
        ModelUpdateSchedule(model_update_interval_long_term, model_warmup_duration),
     ult_long_term_schedule |->
        ModelUpdateSchedule(model_update_interval_ult_long_term, model_warmup_duration),
     kalman_filter |-> KalmanFilter]

(***************************************************************************)
(* Detector3D.update_models.  fail names the refit that raises if it is    *)
(* run.  The value is the detector after the call, with: raised, whether   *)
(* an exception left the call; refitted, the tiers whose refit completed,  *)
(* in order; failed, the tier whose refit raised; skipped, whether the     *)
(* call returned at the empty-storage test.                                *)
(***************************************************************************)
Added(d, o) ==
    [d EXCEPT !.short_term_model = add_observation(@, o),
              !.long_term_model = add_observation(@, o),
              !.ultra_long_term_model = add_observation(@, o)]

AnyStorageEmpty(d) ==
    \/ n_observations(d.short_term_model) <= 0
    \/ n_observations(d.long_term_model) <= 0
    \/ n_observations(d.ultra_long_term_model) <= 0

Outcome(d, raised, refitted, failed, skipped) ==
    [d |-> d, raised |-> raised, refitted |-> refitted, failed |-> failed,
     skipped |-> skipped]

\* The try block, from the short-term refit on.
RefitShort(d, fail, refitted, caught) ==
    IF fail = "short"
      THEN Outcome(d, ~caught, refitted, "short", FALSE)
      ELSE Outcome(
             [d EXCEPT !.short_term_model =
                 estimate_sphere_center(@, <<d.long_term_model.sphere_center>>)],
             FALSE, Append(refitted, "short"), "none", FALSE)

\* The try block, from the long-term schedule on.
RefitLong(d, o, fail, refitted, caught) ==
    LET due == is_update_due(d.long_term_schedule, o.timestamp)
        d1  == [d EXCEPT !.long_term_schedule = due.s]
    IN IF ~due.ret
         THEN RefitShort(d1, fail, refitted, caught)
       ELSE IF fail = "long"
         THEN Outcome(d1, ~caught, refitted, "long", FALSE)
       ELSE RefitShort(
              [d1 EXCEPT !.long_term_model =
                  estimate_sphere_center(@, <<d1.ultra_long_term_model.sphere_center>>)],
              fail, Append(refitted, "long"), caught)

\* The try block.
RefitAll(d, o, fail, caught) ==
    LET due == is_update_due(d.ult_long_term_schedule, o.timestamp)
        d1  == [d EXCEPT !.ult_long_term_schedule = due.s]
    IN IF ~due.ret
         THEN RefitLong(d1, o, fail, <<>>, caught)
       ELSE IF fail = "ultra_long"
         THEN Outcome(d1, ~caught, <<>>, "ultra_long", FALSE)
       ELSE RefitLong(
              [d1 EXCEPT !.ultra_long_term_model = estimate_sphere_center(@, <<>>)],
              o, fail, <<"ultra_long">>, caught)

\* update_models without its try/except.
update_models_uncaught(d, o, fail) ==
    IF AnyStorageEmpty(Added(d, o))
      THEN Outcome(Added(d, o), FALSE, <<>>, "none", TRUE)
      ELSE RefitAll(Added(d, o), o, fail, FALSE)

\* update_models without the return on an empty storage.
update_models_unguarded(d, o, fail) ==
    RefitAll(Added(d, o), o, fail, TRUE)

\* update_models with a try/except of its own around the short-term refit.
update_models_short_apart(d, o, fail) ==
    IF AnyStorageEmpty(Added(d, o))
      THEN Outcome(Added(d, o), FALSE, <<>>, "none", TRUE)
      ELSE LET r == RefitAll(Added(d, o), o, fail, TRUE)
           IN IF r.failed \in {"ultra_long", "long"}
                THEN [RefitShort(r.d, "none", r.refitted, TRUE) EXCEPT !.failed = r.failed]
                ELSE r

\* update_models with the return on an empty short-term storage only.
update_models_short_guard(d, o, fail) ==
    IF n_observations(Added(d, o).short_term_model) <= 0
      THEN Outcome(Added(d, o), FALSE, <<>>, "none", TRUE)
      ELSE RefitAll(Added(d, o), o, fail, TRUE)

\* update_models with the short-term refit only in the cycles in which the
\* long-term refit ran.
update_models_short_with_long(d, o, fail) ==
    IF AnyStorageEmpty(Added(d, o))
      THEN Outcome(Added(d, o), FALSE, <<>>, "none", TRUE)
      ELSE LET r == RefitAll(Added(d, o), o, fail, TRUE)
               long_ran == \E i \in 1..Len(r.refitted) : r.refitted[i] = "long"
           IN IF r.failed = "none" /\ ~long_ran
                THEN Outcome([r.d EXCEPT !.short_term_model = Added(d, o).short_term_model],
                             FALSE,
                             SelectSeq(r.refitted, LAMBDA tier : tier # "short"),
                             "none", FALSE)
                ELSE r

\* update_models with the long-term schedule and refit ahead of the
\* ultra-long-term ones.
update_models_long_first(d, o, fail) ==
    IF AnyStorageEmpty(Added(d, o))
      THEN Outcome(Added(d, o), FALSE, <<>>, "none", TRUE)
      ELSE
        LET a == Added(d, o)
            dueL == is_update_due(a.long_term_schedule, o.timestamp)
            a1 == [a EXCEPT !.long_term_schedule = dueL.s]
            a2 == IF dueL.ret
                    THEN [a1 EXCEPT !.long_term_model =
                            estimate_sphere_center(@, <<a1.ultra_long_term_model.sphere_center>>)]
                    ELSE a1
            r1 == IF dueL.ret THEN <<"long">> ELSE <<>>
            dueU == is_update_due(a2.ult_long_term_schedule, o.timestamp)
            a3 == [a2 EXCEPT !.ult_long_term_schedule = dueU.s]
            a4 == IF dueU.ret
                    THEN [a3 EXCEPT !.ultra_long_term_model = estimate_sphere_center(@, <<>>)]
                    ELSE a3
            r2 == IF dueU.ret THEN Append(r1, "ultra_long") ELSE r1
        IN IF dueL.ret /\ fail = "long"
             THEN Outcome(a1, FALSE, <<>>, "long", FALSE)
           ELSE IF dueU.ret /\ fail = "ultra_long"
             THEN Outcome(a3, FALSE, r1, "ultra_long", FALSE)
           ELSE RefitShort(a4, fail, r2, TRUE)

\* update_models with a schedule that forgets the update time of a refit
\* that raised.
update_models_failure_unrecorded(d, o, fail) ==
    IF AnyStorageEmpty(Added(d, o))
      THEN Outcome(Added(d, o), FALSE, <<>>, "none", TRUE)
      ELSE LET r == RefitAll(Added(d, o), o, fail, TRUE)
           IN IF r.failed = "long"
                THEN [r EXCEPT !.d.long_term_schedule.last_update =
                                   d.long_term_schedule.last_update]
              ELSE IF r.failed = "ultra_long"
                THEN [r EXCEPT !.d.ult_long_term_schedule.last_update =
                                   d.ult_long_term_schedule.last_update]
              ELSE r

\* update_models that consults both schedules ahead of the empty-storage
\* test.
update_models_schedules_first(d, o, fail) ==
    LET a == Added(d, o)
        a1 == [a EXCEPT !.ult_long_term_schedule = is_update_due(@, o.timestamp).s,
                        !.long_term_schedule = is_update_due(@, o.timestamp).s]
    IN IF AnyStorageEmpty(a)
         THEN Outcome(a1, FALSE, <<>>, "none", TRUE)
         ELSE RefitAll(a, o, fail, TRUE)

update_models(d, o, fail) ==
    IF AnyStorageEmpty(Added(d, o))
      THEN Outcome(Added(d, o), FALSE, <<>>, "none", TRUE)
      ELSE RefitAll(Added(d, o), o, fail, TRUE)

(***************************************************************************)
(* Detector3D._predict_from_3d_search                                      *)
(***************************************************************************)
Clip(x, lo, hi) == IF x < lo THEN lo ELSE IF x > hi THEN hi ELSE x

no_result == [circle |-> NullCircle, confidence |-> 0]

\* _predict_from_3d_search without the return on an empty edge list.
predict_from_3d_search_no_edge_test(best_guess, env) ==
    IF best_guess.null
      THEN no_result
    ELSE LET found == IF env.circle_null
                        THEN Circle(<<"search", "long">>, Zero, Zero)
                        ELSE Circle(<<"search", "long">>, <<"search", "">>, <<"search", "">>)
         IN [circle |-> found,
             confidence |-> IF found.null THEN 0
                            ELSE IF env.projects THEN Clip(env.ratio, 0, 100)
                            ELSE 0]

predict_from_3d_search(best_guess, env) ==
    IF best_guess.null
      THEN no_result
    ELSE IF env.edges <= 0
      THEN no_result
    ELSE LET found == IF env.circle_null
                        THEN Circle(<<"search", "long">>, Zero, Zero)
                        ELSE Circle(<<"search", "long">>, <<"search", "">>, <<"search", "">>)
         IN [circle |-> found,
             confidence |-> IF found.null THEN 0
                            ELSE IF env.projects THEN Clip(env.ratio, 0, 100)
                            ELSE 0]

\* Detector3D._predict_from_kalman_filter: the circle built from the
\* filter's prediction.
predict_from_kalman_filter(env) ==
    IF env.guess_null
      THEN Circle(<<"kalman", "short">>, Zero, Zero)
      ELSE Circle(<<"kalman", "short">>, <<"kalman", "">>, <<"kalman", "">>)

(***************************************************************************)
(* Detector3D._predict_pupil_circle.  The value holds the circle returned, *)
(* the observation and the filter after the call, the calls made on the    *)
(* filter in order, and whether the search was invoked.                    *)
(***************************************************************************)
\* _correct_kalman_filter without its test for the null circle.
correct_kalman_filter_unguarded(kf, observed_pupil_circle, calls) ==
    [kf |-> kalman_correct(kf), calls |-> Append(calls, "correct")]

\* Detector3D._correct_kalman_filter
correct_kalman_filter(kf, observed_pupil_circle, calls) ==
    IF observed_pupil_circle.null
      THEN [kf |-> kf, calls |-> calls]
      ELSE [kf |-> kalman_correct(kf), calls |-> Append(calls, "correct")]

\* The last step of _predict_pupil_circle.
Corrected(kf, circle, confidence, calls) ==
    IF confidence > threshold_kalman
      THEN correct_kalman_filter(kf, circle, calls)
      ELSE [kf |-> kf, calls |-> calls]

\* _predict_pupil_circle with the two models swapped in the circle.
predict_pupil_circle_swapped(d, o, env) ==
    LET kf == kalman_predict(d.kalman_filter, o.timestamp)
        short_term == predict_pupil_circle("short", d.short_term_model, o)
        long_term  == predict_pupil_circle("long", d.long_term_model, o)
        search == predict_from_3d_search(predict_from_kalman_filter(env), env)
        high == o.confidence > threshold_swirski
        circle == IF high
                    THEN Circle(short_term.center, long_term.normal, short_term.radius)
                    ELSE search.circle
        o1 == IF high THEN o ELSE [o EXCEPT !.confidence = search.confidence]
        c  == Corrected(kf, circle, o1.confidence, <<"predict">>)
    IN [circle |-> circle, observation |-> o1, kalman_filter |-> c.kf,
        kalman_calls |-> c.calls, search_invoked |-> ~high,
        search |-> IF high THEN no_result ELSE search]

\* _predict_pupil_circle that leaves the observation's confidence alone.
predict_pupil_circle_no_overwrite(d, o, env) ==
    LET kf == kalman_predict(d.kalman_filter, o.timestamp)
        short_term == predict_pupil_circle("short", d.short_term_model, o)
        long_term  == predict_pupil_circle("long", d.long_term_model, o)
        search == predict_from_3d_search(predict_from_kalman_filter(env), env)
        high == o.confidence > threshold_swirski
        circle == IF high
                    THEN Circle(long_term.center, short_term.normal, long_term.radius)
                    ELSE search.circle
        c  == Corrected(kf, circle, o.confidence, <<"predict">>)
    IN [circle |-> circle, observation |-> o, kalman_filter |-> c.kf,
        kalman_calls |-> c.calls, search_invoked |-> ~high,
        search |-> IF high THEN no_result ELSE search]

\* _predict_pupil_circle that queries the filter only where its prediction
\* is used, on the low-confidence path.
predict_pupil_circle_lazy_predict(d, o, env) ==
    LET high == o.confidence > threshold_swirski
        kf == IF high THEN d.kalman_filter
                      ELSE kalman_predict(d.kalman_filter, o.timestamp)
        short_term == predict_pupil_circle("short", d.short_term_model, o)
        long_term  == predict_pupil_circle("long", d.long_term_model, o)
        search == predict_from_3d_search(predict_from_kalman_filter(env), env)
        circle == IF high
                    THEN Circle(long_term.center, short_term.normal, long_term.radius)
                    ELSE search.circle
        o1 == IF high THEN o ELSE [o EXCEPT !.confidence = search.confidence]
        c  == Corrected(kf, circle, o1.confidence, IF high THEN <<>> ELSE <<"predict">>)
    IN [circle |-> circle, observation |-> o1, kalman_filter |-> c.kf,
        kalman_calls |-> c.calls, search_invoked |-> ~high,
        search |-> IF high THEN no_result ELSE search]

predict_pupil_circle_of_frame(d, o, env) ==
    LET kf == kalman_predict(d.kalman_filter, o.timestamp)
        short_term == predict_pupil_circle("short", d.short_term_model, o)
        long_term  == predict_pupil_circle("long", d.long_term_model, o)
        search == predict_from_3d_search(predict_from_kalman_filter(env), env)
        high == o.confidence > threshold_swirski
        circle == IF high
                    THEN Circle(long_term.center, short_term.normal, long_term.radius)
                    ELSE search.circle
        o1 == IF high THEN o ELSE [o EXCEPT !.confidence = search.confidence]
        c  == Corrected(kf, circle, o1.confidence, <<"predict">>)
    IN [circle |-> circle, observation |-> o1, kalman_filter |-> c.kf,
        kalman_calls |-> c.calls, search_invoked |-> ~high,
        search |-> IF high THEN no_result ELSE search]

(***************************************************************************)
(* Detector3D._prepare_result, with the refraction correction of           *)
(* update_and_detect before it.                                            *)
(***************************************************************************)
NoResult == [returned |-> FALSE]

\* _prepare_result reporting the observation's confidence twice.
prepare_result_one_confidence(d, o, circle, apply_correction) ==
    LET corrected == IF apply_correction
                       THEN apply_refraction_correction(d.long_term_model, circle)
                       ELSE circle
        long_term == predict_pupil_circle("long", d.long_term_model, o)
    IN [returned      |-> TRUE,
        timestamp     |-> o.timestamp,
        sphere        |-> [corrected |-> apply_correction,
                           center |-> d.long_term_model.sphere_center],
        circle_3d     |-> corrected,
        diameter_3d   |-> [zero |-> long_term.radius = Zero, twice |-> long_term.radius],
        ellipse       |-> [default |-> circle.null, of |-> circle],
        confidence    |-> o.confidence,
        confidence_2d |-> o.confidence]

prepare_result(d, o, circle, apply_correction) ==
    LET corrected == IF apply_correction
                       THEN apply_refraction_correction(d.long_term_model, circle)
                       ELSE circle
        long_term == predict_pupil_circle("long", d.long_term_model, o)
    IN [returned      |-> TRUE,
        timestamp     |-> o.timestamp,
        sphere        |-> [corrected |-> apply_correction,
                           center |-> d.long_term_model.sphere_center],
        circle_3d     |-> corrected,
        diameter_3d   |-> [zero |-> long_term.radius = Zero, twice |-> long_term.radius],
        ellipse       |-> [default |-> circle.null, of |-> circle],
        confidence    |-> o.confidence,
        confidence_2d |-> o.confidence_2d]

(***************************************************************************)
(* Detector3D.update_and_detect, frame by frame.                           *)
(***************************************************************************)
NoSearchEnv ==
    [guess_null |-> FALSE, edges |-> 0, circle_null |-> FALSE, projects |-> FALSE, ratio |-> 0]

\* No assignment to long_term_mode yet.
NoModeCall == [called |-> FALSE, at |-> 0, from |-> "blocking", to |-> "blocking", pre |-> Detector3D]

NoCycle ==
    [pre            |-> Detector3D,  \* the detector when the frame came in
     pupil_datum    |-> [axes |-> <<0, 0>>, confidence |-> 0, gaze_bin |-> 0],
     skipped        |-> FALSE,       \* update_models returned at the empty-storage test
     refitted       |-> <<>>,        \* the tiers whose refit completed, in order
     failed         |-> "none",      \* the tier whose refit raised
     search_invoked |-> FALSE,
     search         |-> no_result,   \* what the search returned, if invoked
     search_env     |-> NoSearchEnv, \* what the search was given, if invoked
     kalman_calls   |-> <<>>]        \* the calls made on the filter, in order

InitDetector ==
    /\ sched = ModelUpdateSchedule(0, 0)
    /\ sched_pre = ModelUpdateSchedule(0, 0)
    /\ sched_last = NoCall
    /\ sched_prev = NoCall
    /\ sched_hist = InitHist
    /\ det = Detector3D
    /\ pc = "idle"
    /\ now = 0
    /\ n_frames = 0
    /\ observation = NoObservation
    /\ pupil_circle = NullCircle
    /\ result = NoResult
    /\ cycle = NoCycle
    /\ long_term_mode = "blocking"
    /\ mode_call = NoModeCall
    /\ bg = <<>>
    /\ legacy = <<>>
    /\ stores = <<>>

\* update_and_detect is called with the next frame: _extract_observation.
ExtractObservation ==
    /\ pc = "idle"
    /\ n_frames < MaxFrames
    /\ \E pupil_datum \in PupilData, gap \in Gaps :
         /\ now' = now + gap
         /\ observation' = extract_observation(pupil_datum, now + gap)
         /\ cycle' = [NoCycle EXCEPT !.pre = det, !.pupil_datum = pupil_datum]
    /\ n_frames' = n_frames + 1
    /\ pupil_circle' = NullCircle
    /\ result' = NoResult
    /\ pc' = "update_models"
    /\ UNCHANGED <<det, schedVars, restVars>>

UpdateModels ==
    /\ pc = "update_models"
    /\ \E fail \in Failures :
         LET r == update_models(det, observation, fail)
         IN /\ det' = r.d
            /\ cycle' = [cycle EXCEPT !.skipped = r.skipped,
                                      !.refitted = r.refitted, !.failed = r.failed]
            /\ pc' = IF r.raised THEN "aborted" ELSE "predict"
    /\ UNCHANGED <<now, n_frames, observation, pupil_circle, result, schedVars, restVars>>

PredictPupilCircle ==
    /\ pc = "predict"
    /\ \E env \in SearchEnvs :
         LET r == predict_pupil_circle_of_frame(det, observation, env)
         IN /\ det' = [det EXCEPT !.kalman_filter = r.kalman_filter]
            /\ observation' = r.observation
            /\ pupil_circle' = r.circle
            /\ cycle' = [cycle EXCEPT !.search_invoked = r.search_invoked,
                                      !.search = r.search,
                                      !.search_env = IF r.search_invoked
                                                       THEN env ELSE NoSearchEnv,
                                      !.kalman_calls = r.kalman_calls]
    /\ pc' = "result"
    /\ UNCHANGED <<now, n_frames, result, schedVars, restVars>>

\* The refraction correction, _prepare_result and the return.
PrepareResult ==
    /\ pc = "result"
    /\ \E apply_correction \in BOOLEAN :
         result' = prepare_result(det, observation, pupil_circle, apply_correction)
    /\ pc' = "idle"
    /\ UNCHANGED <<det, now, n_frames, observation, pupil_circle, cycle, schedVars, restVars>>

NextDetector ==
    \/ ExtractObservation
    \/ UpdateModels
    \/ PredictPupilCircle
    \/ PrepareResult

SpecDetector == InitDetector /\ [][NextDetector]_vars

(***************************************************************************)
(* The specifications.                                                     *)
(***************************************************************************)
NextSchedule ==
    \/ CallPause
    \/ CallResume
    \/ CallIsUpdateDue

SpecSchedule == InitSchedule /\ [][NextSchedule]_vars

(***************************************************************************)
(* Claims about the schedule, checked under SpecSchedule.                  *)
(***************************************************************************)
LastIsDue == sched_last.name = "due"

\* C1: while not paused, the first is_update_due call and every later call
\* made less than warmup_duration after that first call return true,
\* whatever update_interval is.
C1_WarmupCallsAreDue ==
    (LastIsDue /\ sched_last.phase \in {"cold", "warmup"}) => sched_last.ret

\* C1 witness: a warmup call returns true although the call before it
\* returned true no more than update_interval earlier.
C1_Witness ==
    /\ LastIsDue /\ sched_last.phase = "warmup" /\ sched_last.ret
    /\ sched_last.true_before # None
    /\ sched_last.t >= sched_last.true_before
    /\ sched_last.t - sched_last.true_before <= sched.update_interval

\* C2 as stated: with non-decreasing timestamps and no pause() or resume(),
\* a steady-phase call returns true only if more than update_interval has
\* passed since the last call that returned true.
C2_Original ==
    (/\ LastIsDue /\ sched_last.phase = "steady" /\ sched_last.ret
     /\ sched_hist.monotone /\ sched_hist.only_due)
    => (/\ sched_last.true_before # None
        /\ sched_last.t - sched_last.true_before > sched.update_interval)

\* C2 amended: with non-decreasing timestamps, a steady-phase call returns
\* true only if no steady-phase call has returned true since construction or
\* the last resume(), or more than update_interval has passed since the last
\* steady-phase call that returned true.
C2_SteadyDueOnlyAfterInterval ==
    (/\ LastIsDue /\ sched_last.phase = "steady" /\ sched_last.ret
     /\ sched_hist.monotone)
    => (\/ sched_last.steady_true_before = None
        \/ sched_last.t - sched_last.steady_true_before > sched.update_interval)

\* C2 witness: a steady-phase call returns true after an earlier steady-phase
\* call returned true more than update_interval before it.
C2_Witness ==
    /\ LastIsDue /\ sched_last.phase = "steady" /\ sched_last.ret
    /\ sched_hist.monotone
    /\ sched_last.steady_true_before # None
    /\ sched_last.t - sched_last.steady_true_before > sched.update_interval
    /\ sched.update_interval > 0

\* C3: with non-decreasing timestamps, the first call after warmup returns
\* true, and a steady-phase call that directly follows a steady-phase call
\* that returned true, less than update_interval after it, returns false.
C3_TrueThenFalse ==
    /\ (LastIsDue /\ sched_last.first_steady /\ sched_hist.monotone)
          => sched_last.ret
    /\ (/\ LastIsDue /\ sched_last.phase = "steady"
        /\ sched_prev.name = "due" /\ sched_prev.phase = "steady" /\ sched_prev.ret
        /\ sched_hist.monotone
        /\ sched_last.t - sched_prev.t < sched.update_interval)
          => ~sched_last.ret

\* C3 witness: the first two calls after warmup, less than update_interval
\* apart, returned true and false.
C3_Witness ==
    /\ LastIsDue /\ sched_last.phase = "steady" /\ ~sched_last.ret
    /\ sched_prev.name = "due" /\ sched_prev.first_steady /\ sched_prev.ret
    /\ sched_hist.monotone
    /\ sched_last.t - sched_prev.t < sched.update_interval

\* C4: between pause() and resume() every is_update_due call returns false,
\* whatever its timestamp, and pause() leaves warmup_start and last_update
\* as they were.
C4_PausedNeverDue ==
    /\ (LastIsDue /\ sched_last.phase = "paused") => ~sched_last.ret
    /\ sched_last.name = "pause" =>
          /\ sched.warmup_start = sched_pre.warmup_start
          /\ sched.last_update = sched_pre.last_update

\* C4 witness: pause() was called on a schedule whose timers were both set.
C4_Witness ==
    /\ sched_last.name = "pause"
    /\ sched_pre.warmup_start # None /\ sched_pre.last_update # None

\* C4 witness of the calls: two calls in a row were made while paused, the
\* second one more than update_interval after the last update.
C4_WitnessCalls ==
    /\ LastIsDue /\ sched_last.phase = "paused" /\ ~sched_last.ret
    /\ sched_prev.name = "due" /\ sched_prev.phase = "paused"
    /\ sched.last_update # None
    /\ sched_last.t - sched.last_update > sched.update_interval

\* C5: the is_update_due call that directly follows resume() returns true.
C5_DueAfterResume ==
    (LastIsDue /\ sched_prev.name = "resume") => sched_last.ret

\* C5 witness: the call after resume() returned true in the steady phase,
\* no more than update_interval after the last call that returned true.
C5_Witness ==
    /\ LastIsDue /\ sched_prev.name = "resume" /\ sched_last.ret
    /\ sched_last.phase = "steady"
    /\ sched_last.steady_true_before = None
    /\ sched_last.true_before # None
    /\ sched_last.t >= sched_last.true_before
    /\ sched_last.t - sched_last.true_before <= sched.update_interval

(***************************************************************************)
(* Claims about the detector, checked under SpecDetector.                  *)
(***************************************************************************)
\* The frame in hand has left update_models.
AfterUpdate == n_frames > 0 /\ pc # "update_models"

\* The frame in hand has left _predict_pupil_circle.
AfterPredict == n_frames > 0 /\ pc \in {"result", "idle"}

ModelOf(d, tier) ==
    CASE tier = "short" -> d.short_term_model
      [] tier = "long" -> d.long_term_model
      [] tier = "ultra_long" -> d.ultra_long_term_model

CenterOf(d, tier) == ModelOf(d, tier).sphere_center

RetainedBy(d, tier) == ModelOf(d, tier).storage.obs

\* The place of a tier's refit in the try block of update_models.
Place(tier) ==
    CASE tier = "ultra_long" -> 1
      [] tier = "long" -> 2
      [] tier = "short" -> 3

Refitted(tier) == \E i \in 1..Len(cycle.refitted) : cycle.refitted[i] = tier

\* C6 as stated: when a refit of the cycle fails, all three sphere centers
\* are after update_models what they were before it.
C6_Original ==
    (AfterUpdate /\ cycle.failed # "none")
    => \A tier \in Tiers : CenterOf(det, tier) = CenterOf(cycle.pre, tier)

\* C6 amended: when a refit of the cycle fails, the failure is caught, and
\* the tier whose refit failed and the tiers whose refit comes after it in
\* the cycle keep their sphere centers; a tier refitted before it in the
\* same cycle is not among them.
C6_FailedRefitKeepsLaterCenters ==
    (AfterUpdate /\ cycle.failed # "none")
    => /\ pc # "aborted"
       /\ \A tier \in Tiers :
             \/ CenterOf(det, tier) = CenterOf(cycle.pre, tier)
             \/ Refitted(tier) /\ Place(tier) < Place(cycle.failed)

\* C6 witness: the long-term refit failed after the ultra-long-term refit of
\* the same cycle had moved the ultra-long-term sphere center, and the frame
\* was processed to its end.
C6_Witness ==
    /\ pc = "idle" /\ result.returned
    /\ cycle.failed = "long"
    /\ CenterOf(det, "ultra_long") # CenterOf(cycle.pre, "ultra_long")
    /\ CenterOf(det, "long") = CenterOf(cycle.pre, "long")
    /\ ~CenterOf(cycle.pre, "long").initial

\* C7: update_and_detect returns a result record for every frame: no step
\* of a frame lets an exception out, whichever refit fails inside it, and a
\* frame whose search fails ends with confidence 0 and the default ellipse.
C7_EveryFrameReturns ==
    /\ pc \in {"idle", "update_models", "predict", "result"}
    /\ pc = "update_models" =>
          \A fail \in Failures : ~update_models(det, observation, fail).raised
    /\ (pc = "idle" /\ n_frames > 0) =>
          /\ result.returned
          /\ result.timestamp = now
          /\ (cycle.search_invoked /\ cycle.search.circle.null) =>
                (result.confidence = 0 /\ result.ellipse.default)

\* C7 witness: a result was returned for a frame with a degenerate ellipse
\* in which a refit failed and the search found nothing.
C7_Witness ==
    /\ pc = "idle" /\ result.returned
    /\ observation.invalid
    /\ cycle.failed # "none"
    /\ cycle.search_invoked /\ cycle.search.circle.null
    /\ result.confidence = 0

C9_HighConfidencePath ==
    (AfterPredict /\ cycle.pupil_datum.confidence > threshold_swirski)
    => /\ ~cycle.search_invoked
       /\ pupil_circle.normal = predict_pupil_circle("short", det.short_term_model, observation).normal
       /\ pupil_circle.center = predict_pupil_circle("long", det.long_term_model, observation).center
       /\ pupil_circle.radius = predict_pupil_circle("long", det.long_term_model, observation).radius
       /\ result.returned =>
             /\ result.confidence = cycle.pupil_datum.confidence
             /\ result.confidence = result.confidence_2d

\* C9 witness: a result was returned for a high-confidence frame with a
\* circle that is not null.
C9_Witness ==
    /\ pc = "idle" /\ result.returned
    /\ cycle.pupil_datum.confidence > threshold_swirski
    /\ ~pupil_circle.null
    /\ pupil_circle.normal = <<"predict", "short">>
    /\ pupil_circle.center = <<"predict", "long">>

\* C10: in a frame whose detector confidence does not exceed
\* threshold_swirski the confidence reported is the search's, and
\* confidence_2d is still the detector's.
C10_LowConfidencePath ==
    (pc = "idle" /\ result.returned /\ cycle.pupil_datum.confidence <= threshold_swirski)
    => /\ cycle.search_invoked
       /\ result.confidence = cycle.search.confidence
       /\ result.confidence_2d = cycle.pupil_datum.confidence

\* C10 witness: a result was returned for a low-confidence frame with the
\* search's confidence, which differs from the detector's.
C10_Witness ==
    /\ pc = "idle" /\ result.returned
    /\ cycle.pupil_datum.confidence <= threshold_swirski
    /\ cycle.search.confidence > 0
    /\ result.confidence = cycle.search.confidence
    /\ result.confidence # result.confidence_2d

(***************************************************************************)
(* Detector3D.long_term_mode.  The detector is fed frames in blocking mode *)
(* and its mode is assigned between frames.                                *)
(***************************************************************************)
MaxModeFrames == 2

\* DetectorMode
DetectorMode == {"blocking", "asynchronous"}

\* Detector3D.reset: the models, the schedules and the filter are created
\* anew.
reset(d) == Detector3D

\* The setter with the comparison made after the assignment.
set_long_term_mode_late_test(d, current, mode) ==
    [long_term_mode |-> mode, d |-> d]

\* The long_term_mode setter: the detector's mode and state after
\* detector.long_term_mode = mode.
set_long_term_mode(d, current, mode) ==
    LET needs_reset == mode # current
    IN [long_term_mode |-> mode, d |-> IF needs_reset THEN reset(d) ELSE d]

StartBlockingFrame ==
    /\ long_term_mode = "blocking"
    /\ n_frames < MaxModeFrames
    /\ ExtractObservation

SetLongTermMode ==
    /\ pc = "idle"
    /\ \E mode \in DetectorMode :
         LET r == set_long_term_mode(det, long_term_mode, mode)
         IN /\ long_term_mode' = r.long_term_mode
            /\ det' = r.d
            /\ mode_call' = [called |-> TRUE, at |-> n_frames, from |-> long_term_mode,
                             to |-> mode, pre |-> det]
    /\ UNCHANGED <<pc, now, n_frames, observation, pupil_circle, result, cycle>>
    /\ UNCHANGED <<schedVars, bg, legacy, stores>>

NextMode ==
    \/ StartBlockingFrame
    \/ UpdateModels
    \/ PredictPupilCircle
    \/ PrepareResult
    \/ SetLongTermMode

SpecMode == InitDetector /\ [][NextMode]_vars

\* long_term_mode was assigned and no frame has come in since.
AfterModeCall == mode_call.called /\ mode_call.at = n_frames /\ pc = "idle"

\* C15: assigning long_term_mode a mode other than the current one leaves
\* the three models, the two schedules and the filter as they are after
\* construction; assigning the current mode leaves the detector as it was.
C15_ModeChangeResets ==
    AfterModeCall =>
        /\ long_term_mode = mode_call.to
        /\ mode_call.to # mode_call.from => det = Detector3D
        /\ mode_call.to = mode_call.from => det = mode_call.pre

\* C15 witness: a detector that had stored observations, fitted its models
\* and corrected its filter was switched to the other mode.
C15_Witness ==
    /\ AfterModeCall
    /\ mode_call.to # mode_call.from
    /\ n_observations(mode_call.pre.long_term_model) > 0
    /\ ~mode_call.pre.long_term_model.sphere_center.initial
    /\ mode_call.pre.long_term_schedule.warmup_start # None
    /\ mode_call.pre.kalman_filter.corrected_at # None
    /\ det = Detector3D

\* Such a detector was assigned the mode it already had and kept its state.
C15_SameModeCall ==
    /\ AfterModeCall
    /\ mode_call.to = mode_call.from
    /\ n_observations(mode_call.pre.long_term_model) > 0
    /\ det # Detector3D

(***************************************************************************)
(* Detector3D in asynchronous mode: the long-term and the ultra-long-term  *)
(* model are TwoSphereModelAsync objects, whose refits run on a worker     *)
(* while update_models goes on.  A model keeps the refits requested and    *)
(* not finished (jobs, the running one first) and the last center the      *)
(* worker published (sphere_center).                                       *)
(***************************************************************************)
MaxBgFrames == 3

BgTiers == {"long", "ultra_long"}

\* What the 2D detector reports in the frames fed in this mode.
BgPupilData ==
    {[axes |-> <<2, 4>>, confidence |-> c, gaze_bin |-> 0] : c \in {90, 99}}

TwoSphereModelAsync(storage) ==
    [storage |-> storage, sphere_center |-> InitialCenter, jobs |-> <<>>]

\* A refit request that is queued behind the running refit.
request_estimate_queued(model, prior) ==
    [model EXCEPT !.jobs = Append(@, [obs |-> model.storage.obs, prior |-> prior])]

\* TwoSphereModelAsync.estimate_sphere_center: the refit is handed to the
\* worker unless one is running; the caller gets the last published center
\* without waiting.
request_estimate(model, prior) ==
    IF model.jobs # <<>>
      THEN model
      ELSE [model EXCEPT !.jobs = <<[obs |-> model.storage.obs, prior |-> prior]>>]

\* The worker finishes the running refit and publishes its center.
finish_estimate(model) ==
    [model EXCEPT !.sphere_center =
                      [initial |-> FALSE, obs |-> Head(model.jobs).obs,
                       prior |-> Head(model.jobs).prior],
                  !.jobs = Tail(@)]

\* The running refit fails numerically: logged, nothing published.
fail_estimate(model) == [model EXCEPT !.jobs = Tail(@)]

\* The detector after reset() in asynchronous mode.
Detector3DAsync ==
    [Detector3D EXCEPT
        !.long_term_model = TwoSphereModelAsync(Detector3D.long_term_model.storage),
        !.ultra_long_term_model =
            TwoSphereModelAsync(Detector3D.ultra_long_term_model.storage)]

\* Detector3D.update_models on such a detector.  The value holds the
\* detector after the call and the tiers whose refit it requested.
update_models_async(d, o) ==
    LET a == Added(d, o)
        ult_due == is_update_due(a.ult_long_term_schedule, o.timestamp)
        d1 == [a EXCEPT !.ult_long_term_schedule = ult_due.s,
                        !.ultra_long_term_model =
                            IF ult_due.ret THEN request_estimate(@, <<>>) ELSE @]
        long_due == is_update_due(d1.long_term_schedule, o.timestamp)
        d2 == [d1 EXCEPT !.long_term_schedule = long_due.s,
                         !.long_term_model =
                             IF long_due.ret
                               THEN request_estimate(@, <<d1.ultra_long_term_model.sphere_center>>)
                               ELSE @]
        d3 == [d2 EXCEPT !.short_term_model =
                   estimate_sphere_center(@, <<d2.long_term_model.sphere_center>>)]
    IN IF AnyStorageEmpty(a)
         THEN [d |-> a, requested |-> {}]
         ELSE [d |-> d3,
               requested |-> {t \in BgTiers : IF t = "long" THEN long_due.ret
                                                            ELSE ult_due.ret}]

BgModel(d, tier) ==
    IF tier = "long" THEN d.long_term_model ELSE d.ultra_long_term_model

NoBgFrame == [fresh |-> FALSE, requested |-> {}, running_before |-> {}]

InitAsync ==
    /\ sched = ModelUpdateSchedule(0, 0)
    /\ sched_pre = ModelUpdateSchedule(0, 0)
    /\ sched_last = NoCall
    /\ sched_prev = NoCall
    /\ sched_hist = InitHist
    /\ det = IdleDetector.det
    /\ pc = IdleDetector.pc
    /\ now = IdleDetector.now
    /\ n_frames = IdleDetector.n_frames
    /\ observation = IdleDetector.observation
    /\ pupil_circle = IdleDetector.pupil_circle
    /\ result = IdleDetector.result
    /\ cycle = IdleDetector.cycle
    /\ long_term_mode = "asynchronous"
    /\ mode_call = <<>>
    /\ bg = [d |-> Detector3DAsync, pre |-> Detector3DAsync, now |-> 0, n_frames |-> 0,
             last |-> NoBgFrame]
    /\ legacy = <<>>
    /\ stores = <<>>

\* The frame loop: update_models with the next frame's observation.
BgUpdateModels ==
    /\ bg.n_frames < MaxBgFrames
    /\ \E pupil_datum \in BgPupilData, gap \in Gaps :
         LET o == extract_observation(pupil_datum, bg.now + gap)
             r == update_models_async(bg.d, o)
         IN bg' = [d |-> r.d, pre |-> bg.d, now |-> bg.now + gap,
                   n_frames |-> bg.n_frames + 1,
                   last |-> [fresh |-> TRUE, requested |-> r.requested,
                             running_before |->
                                 {t \in BgTiers : BgModel(bg.d, t).jobs # <<>>}]]
    /\ UNCHANGED <<schedVars, detVars, modeVars, legacy, stores>>

\* The worker finishes the ultra-long-term or the long-term refit.
WorkerFinish ==
    /\ \E tier \in BgTiers :
         /\ BgModel(bg.d, tier).jobs # <<>>
         /\ bg' = [bg EXCEPT
                     !.d = IF tier = "long"
                             THEN [@ EXCEPT !.long_term_model = finish_estimate(@)]
                             ELSE [@ EXCEPT !.ultra_long_term_model = finish_estimate(@)],
                     !.last = NoBgFrame]
    /\ UNCHANGED <<schedVars, detVars, modeVars, legacy, stores>>

\* The refit on the worker raises; the error is logged.
WorkerFail ==
    /\ \E tier \in BgTiers :
         /\ BgModel(bg.d, tier).jobs # <<>>
         /\ bg' = [bg EXCEPT
                     !.d = IF tier = "long"
                             THEN [@ EXCEPT !.long_term_model = fail_estimate(@)]
                             ELSE [@ EXCEPT !.ultra_long_term_model = fail_estimate(@)],
                     !.last = NoBgFrame]
    /\ UNCHANGED <<schedVars, detVars, modeVars, legacy, stores>>

NextAsync ==
    \/ BgUpdateModels
    \/ WorkerFinish
    \/ WorkerFail

SpecAsync == InitAsync /\ [][NextAsync]_vars

MaxLegacyObs == 2
MaxLegacyFits == 2

Eyes == {0, 1}

\* Refractionizer.correct_sphere_center
correct_sphere_center(center) == <<"corrected", center>>

\* TwoSphereModel.__init__ (two_sphere_model.py)
LegacyTwoSphereModel ==
    [sphere_center |-> <<"initial">>,
     corrected_sphere_center |-> correct_sphere_center(<<"initial">>),
     observation_storage |-> <<>>]

\* TwoSphereModel.add_to_observation_storage: nothing is stored when
\* unproject_ellipse finds no circle pair.
add_to_observation_storage(model, eye, axes, timestamp) ==
    IF axes[1] \div 2 <= 0 \/ axes[2] \div 2 <= 0
      THEN model
      ELSE [model EXCEPT !.observation_storage =
                             Append(@, [eye |-> eye, timestamp |-> timestamp])]

\* TwoSphereModel.set_sphere_center
set_sphere_center(model, new_sphere_center) ==
    [model EXCEPT !.sphere_center = new_sphere_center,
                  !.corrected_sphere_center = correct_sphere_center(new_sphere_center)]

\* TwoSphereModel.reset: sphere_center and observation_storage are
\* assigned, corrected_sphere_center is not.
legacy_reset(model) ==
    [model EXCEPT !.sphere_center = <<"initial">>,
                  !.observation_storage = <<>>]

\* The module globals before the first fit of the process (NameError).
NoPrev == [set |-> FALSE, center |-> <<>>, disambiguation |-> <<>>, t |-> None]

\* The observations from the cutoff on.
FromCutoff(observations, cutoff) ==
    SelectSeq(observations, LAMBDA obs : obs.timestamp >= cutoff)

\* TwoSphereModel.deep_sphere_estimate.  prev holds the globals when the
\* call starts; cost_high tells whether the mean residual against
\* prev_center exceeds 2, max_change_idx where the residuals change most.
\* The value holds what is returned and the globals when the call ends.
deep_sphere_estimate(observations, prev, cost_high, max_change_idx) ==
    LET trimmed == prev.set /\ cost_high
        cutoff == IF trimmed THEN observations[max_change_idx].timestamp ELSE None
        used == IF trimmed THEN FromCutoff(observations, cutoff) ELSE observations
    IN [sphere_center |-> <<"fit", used>>,
        cutoff |-> cutoff,
        debug_info |-> IF prev.set
                         THEN <<"cost", observations, prev.center, prev.disambiguation>>
                         ELSE <<>>,
        prev |-> [set |-> TRUE, center |-> <<"fit", used>>, disambiguation |-> used,
                  t |-> used[Len(used)].timestamp]]

\* No fit yet.
NoFit ==
    [fitted |-> FALSE, eye |-> 0, first |-> FALSE, observations |-> <<>>,
     read |-> NoPrev, sphere_center |-> <<>>, cutoff |-> None, debug_info |-> <<>>]

InitLegacy ==
    /\ sched = ModelUpdateSchedule(0, 0)
    /\ sched_pre = ModelUpdateSchedule(0, 0)
    /\ sched_last = NoCall
    /\ sched_prev = NoCall
    /\ sched_hist = InitHist
    /\ det = IdleDetector.det
    /\ pc = IdleDetector.pc
    /\ now = IdleDetector.now
    /\ n_frames = IdleDetector.n_frames
    /\ observation = IdleDetector.observation
    /\ pupil_circle = IdleDetector.pupil_circle
    /\ result = IdleDetector.result
    /\ cycle = IdleDetector.cycle
    /\ long_term_mode = "off"
    /\ mode_call = <<>>
    /\ bg = <<>>
    /\ legacy = [models |-> [eye \in Eyes |-> LegacyTwoSphereModel],
                 prev |-> NoPrev,
                 fits |-> [eye \in Eyes |-> 0],
                 clock |-> 0,
                 last |-> NoFit]
    /\ stores = <<>>

\* model.add_to_observation_storage(pupil_datum) on one of the models.
LegacyAdd ==
    /\ \E eye \in Eyes, axes \in {<<0, 4>>, <<2, 4>>} :
         /\ Len(legacy.models[eye].observation_storage) < MaxLegacyObs
         /\ legacy.clock < 2 * MaxLegacyObs
         /\ legacy' = [legacy EXCEPT
                         !.models[eye] =
                             add_to_observation_storage(@, eye, axes, legacy.clock + 1),
                         !.clock = @ + 1]
    /\ UNCHANGED <<schedVars, detVars, modeVars, bg, stores>>

\* deep_sphere_estimate on the observations of one of the models.
LegacyFit ==
    /\ \E eye \in Eyes, cost_high \in BOOLEAN :
         /\ legacy.fits[eye] < MaxLegacyFits
         /\ legacy.models[eye].observation_storage # <<>>
         /\ \E max_change_idx \in 1..Len(legacy.models[eye].observation_storage) :
              LET observations == legacy.models[eye].observation_storage
                  r == deep_sphere_estimate(observations, legacy.prev, cost_high,
                                            max_change_idx)
              IN legacy' = [legacy EXCEPT
                              !.prev = r.prev,
                              !.fits[eye] = @ + 1,
                              !.last = [fitted |-> TRUE, eye |-> eye,
                                        first |-> legacy.fits[eye] = 0,
                                        observations |-> observations,
                                        read |-> legacy.prev,
                                        sphere_center |-> r.sphere_center,
                                        cutoff |-> r.cutoff,
                                        debug_info |-> r.debug_info]]
    /\ UNCHANGED <<schedVars, detVars, modeVars, bg, stores>>

\* model.set_sphere_center with the center of the model's latest fit.
LegacySetSphereCenter ==
    /\ legacy.last.fitted
    /\ legacy.models[legacy.last.eye].sphere_center # legacy.last.sphere_center
    /\ legacy' = [legacy EXCEPT
                    !.models[legacy.last.eye] =
                        set_sphere_center(@, legacy.last.sphere_center)]
    /\ UNCHANGED <<schedVars, detVars, modeVars, bg, stores>>

\* model.reset() on one of the models.
LegacyReset ==
    /\ \E eye \in Eyes :
         /\ legacy.models[eye] # legacy_reset(legacy.models[eye])
         /\ legacy' = [legacy EXCEPT !.models[eye] = legacy_reset(@)]
    /\ UNCHANGED <<schedVars, detVars, modeVars, bg, stores>>

NextLegacy ==
    \/ LegacyAdd
    \/ LegacyFit
    \/ LegacySetSphereCenter
    \/ LegacyReset

SpecLegacy == InitLegacy /\ [][NextLegacy]_vars

\* What the fit returns when no fit has run in the process before it.
FitAlone(observations) == deep_sphere_estimate(observations, NoPrev, FALSE, 1)

\* C17: a fit on one model never reads state left by a fit on another
\* model's observations, and the first fit on a model returns what it
\* returns when that model is the only one in the process.
C17_Original ==
    legacy.last.fitted =>
        /\ legacy.last.read.set =>
              legacy.last.read.disambiguation[1].eye = legacy.last.eye
        /\ legacy.last.first =>
              /\ legacy.last.sphere_center = FitAlone(legacy.last.observations).sphere_center
              /\ legacy.last.cutoff = FitAlone(legacy.last.observations).cutoff
              /\ legacy.last.debug_info = FitAlone(legacy.last.observations).debug_info

\* The first fit on one eye's model ran after a fit on the other eye's: it
\* used the other eye's prev_center and prev_disambiguation, dropped the
\* observations before the cutoff and returned another center than alone.
C17_SharedStateFit ==
    /\ legacy.last.fitted /\ legacy.last.first
    /\ legacy.last.read.set
    /\ legacy.last.read.disambiguation[1].eye # legacy.last.eye
    /\ legacy.last.debug_info # <<>>
    /\ legacy.last.sphere_center # FitAlone(legacy.last.observations).sphere_center

(***************************************************************************)
(* The two storage policies on their own: one buffered and one binned      *)
(* storage, built as _initialize_models builds them but with small         *)
(* lengths, fed observations of any confidence, bin and spacing in time.   *)
(***************************************************************************)
StoreBufferLength == 2
StoreBinBufferLength == 2
StoreForgetMinObservations == 2
StoreForgetMinTime == 2
MaxStoreTime == 7

StorePupilData ==
    {[axes |-> <<2, 4>>, confidence |-> c, gaze_bin |-> b] :
        c \in {70, 90, 99}, b \in {0, 1}}
    \cup {[axes |-> <<0, 4>>, confidence |-> 99, gaze_bin |-> 0]}

\* No add yet.
NoAdd ==
    [added |-> FALSE, kind |-> "buffered", o |-> NoObservation,
     pre |-> BufferedObservationStorage(threshold_short_term, StoreBufferLength)]

InitStorage ==
    /\ sched = ModelUpdateSchedule(0, 0)
    /\ sched_pre = ModelUpdateSchedule(0, 0)
    /\ sched_last = NoCall
    /\ sched_prev = NoCall
    /\ sched_hist = InitHist
    /\ det = IdleDetector.det
    /\ pc = IdleDetector.pc
    /\ now = IdleDetector.now
    /\ n_frames = IdleDetector.n_frames
    /\ observation = IdleDetector.observation
    /\ pupil_circle = IdleDetector.pupil_circle
    /\ result = IdleDetector.result
    /\ cycle = IdleDetector.cycle
    /\ long_term_mode = "off"
    /\ mode_call = <<>>
    /\ bg = <<>>
    /\ legacy = <<>>
    /\ stores = [buffered |-> BufferedObservationStorage(threshold_short_term,
                                                         StoreBufferLength),
                 binned |-> BinBufferedObservationStorage(
                                threshold_long_term, StoreBinBufferLength,
                                StoreForgetMinObservations, StoreForgetMinTime),
                 clock |-> 0,
                 last |-> NoAdd]

\* storage.add(observation) on the buffered storage.
AddBuffered ==
    /\ \E pupil_datum \in StorePupilData, dt \in 1..(StoreForgetMinTime + 1) :
         /\ stores.clock + dt <= MaxStoreTime
         /\ LET o == extract_observation(pupil_datum, stores.clock + dt)
            IN stores' = [stores EXCEPT
                            !.buffered = storage_add(@, o),
                            !.clock = @ + dt,
                            !.last = [added |-> TRUE, kind |-> "buffered", o |-> o,
                                      pre |-> stores.buffered]]
    /\ UNCHANGED <<schedVars, detVars, modeVars, bg, legacy>>

\* storage.add(observation) on the binned storage.
AddBinned ==
    /\ \E pupil_datum \in StorePupilData, dt \in 1..(StoreForgetMinTime + 1) :
         /\ stores.clock + dt <= MaxStoreTime
         /\ LET o == extract_observation(pupil_datum, stores.clock + dt)
            IN stores' = [stores EXCEPT
                            !.binned = storage_add(@, o),
                            !.clock = @ + dt,
                            !.last = [added |-> TRUE, kind |-> "binned", o |-> o,
                                      pre |-> stores.binned]]
    /\ UNCHANGED <<schedVars, detVars, modeVars, bg, legacy>>

NextStorage ==
    \/ AddBuffered
    \/ AddBinned

SpecStorage == InitStorage /\ [][NextStorage]_vars

\* The storage the last add went to, as it is after the add.
StoreAfter == IF stores.last.kind = "buffered" THEN stores.buffered ELSE stores.binned

\* The last add offered an observation the storage accepts.
StoreAccepted ==
    /\ stores.last.added
    /\ ~stores.last.o.invalid
    /\ stores.last.o.confidence >= stores.last.pre.confidence_threshold

\* The retained observations of a sequence, as a set.
Retained(seq) == {seq[i] : i \in 1..Len(seq)}

\* C18: a buffered storage of length N never holds more than N
\* observations, and an accepted observation added to a full one evicts
\* the oldest retained observation and no other.
C18_BufferedBoundedFifo ==
    /\ Len(stores.buffered.obs) <= stores.buffered.buffer_length
    /\ (StoreAccepted /\ stores.last.kind = "buffered"
          /\ Len(stores.last.pre.obs) = stores.last.pre.buffer_length)
        => /\ Len(stores.buffered.obs) = stores.buffered.buffer_length
           /\ stores.buffered.obs = Append(Tail(stores.last.pre.obs), Entry(stores.last.o))
           /\ Retained(stores.last.pre.obs) \ Retained(stores.buffered.obs)
                = {stores.last.pre.obs[1]}

\* An accepted observation went into a full buffered storage.
C18_Witness ==
    /\ StoreAccepted /\ stores.last.kind = "buffered"
    /\ Len(stores.last.pre.obs) = stores.last.pre.buffer_length
    /\ stores.buffered.obs[Len(stores.buffered.obs)] = Entry(stores.last.o)

\* C19: an observation whose confidence is below the storage's threshold
\* is not retained, the retained sequence and its count are as before the
\* add, for the buffered and the binned storage alike.
C19_BelowThresholdNotRetained ==
    (stores.last.added
      /\ stores.last.o.confidence < stores.last.pre.confidence_threshold)
    => /\ StoreAfter.obs = stores.last.pre.obs
       /\ Len(StoreAfter.obs) = Len(stores.last.pre.obs)
       /\ Entry(stores.last.o) \notin Retained(StoreAfter.obs)

\* A valid observation below the threshold was offered to a buffered
\* storage that holds observations.
C19_Witness ==
    /\ stores.last.added /\ stores.last.kind = "buffered"
    /\ ~stores.last.o.invalid
    /\ stores.last.o.confidence < stores.last.pre.confidence_threshold
    /\ stores.last.pre.obs # <<>>

\* The same for the binned storage: the observation is one the buffered
\* storage would accept.
C19_BinnedRejection ==
    /\ stores.last.added /\ stores.last.kind = "binned"
    /\ ~stores.last.o.invalid
    /\ stores.last.o.confidence < stores.last.pre.confidence_threshold
    /\ stores.last.o.confidence >= stores.buffered.confidence_threshold
    /\ stores.last.pre.obs # <<>>

\* What the binned storage's per-bin buffer gives up for the last add: the
\* oldest observation of the new one's bin when that bin is full.
BinEvicted ==
    LET seq == stores.last.pre.obs
        b == stores.last.o.gaze_bin
    IN IF StoreAccepted /\ InBin(seq, b) >= stores.last.pre.buffer_length
         THEN {seq[OldestInBin(seq, b)]}
         ELSE {}

\* What the forgetting rule took in the last add to the binned storage.
Forgotten == (Retained(stores.last.pre.obs) \ BinEvicted) \ Retained(stores.binned.obs)

\* C20: the forgetting rule takes an observation only when it is older
\* than forget_min_time and the count exceeds forget_min_observations:
\* every forgotten observation is that old, and forgetting leaves at least
\* forget_min_observations behind.
C20_ForgetNeedsBoth ==
    (stores.last.added /\ stores.last.kind = "binned")
    => \A e \in Forgotten :
         /\ e.timestamp < stores.last.o.timestamp - stores.binned.forget_min_time
         /\ Len(stores.binned.obs) >= stores.binned.forget_min_observations

\* The forgetting rule took an observation.
C20_Witness ==
    /\ stores.last.added /\ stores.last.kind = "binned"
    /\ Forgotten # {}

\* The count exceeds forget_min_observations but nothing is old enough:
\* nothing is forgotten.
C20_CountAlone ==
    /\ StoreAccepted /\ stores.last.kind = "binned"
    /\ BinEvicted = {}
    /\ Len(stores.last.pre.obs) + 1 > stores.binned.forget_min_observations
    /\ \A e \in Retained(stores.last.pre.obs) :
         e.timestamp >= stores.last.o.timestamp - stores.binned.forget_min_time
    /\ Forgotten = {}

\* The oldest observation is old enough but the count does not exceed
\* forget_min_observations: nothing is forgotten.
C20_AgeAlone ==
    /\ StoreAccepted /\ stores.last.kind = "binned"
    /\ stores.last.pre.obs # <<>>
    /\ Len(stores.last.pre.obs) + 1 <= stores.binned.forget_min_observations
    /\ stores.last.pre.obs[1].timestamp
         < stores.last.o.timestamp - stores.binned.forget_min_time
    /\ Forgotten = {}

(***************************************************************************)
(* The temporal filter in a frame.                                         *)
(***************************************************************************)
\* The positions of the calls of one kind among the calls a frame made on
\* the filter.
CallsOf(kind) == {i \in 1..Len(cycle.kalman_calls) : cycle.kalman_calls[i] = kind}

\* C11: the filter's correct step runs in a frame exactly when the frame's
\* confidence, after the search may have overwritten it, exceeds
\* threshold_kalman and the frame's pupil circle is not the null circle; a
\* frame without a correct call leaves the filter's correction untouched.
C11_CorrectIffConfidentAndNotNull ==
    AfterPredict =>
        /\ (CallsOf("correct") # {}) <=>
              (observation.confidence > threshold_kalman /\ ~pupil_circle.null)
        /\ Cardinality(CallsOf("correct")) <= 1
        /\ CallsOf("correct") = {} =>
              det.kalman_filter.corrected_at = cycle.pre.kalman_filter.corrected_at
        /\ CallsOf("correct") # {} => det.kalman_filter.corrected_at = now

\* C11 witness: a low-confidence frame whose search came back with a
\* confidence above threshold_kalman, and the filter was corrected.
C11_Witness ==
    /\ AfterPredict
    /\ observation.confidence_2d <= threshold_swirski
    /\ observation.confidence > threshold_kalman
    /\ ~pupil_circle.null
    /\ CallsOf("correct") # {}

\* A frame whose confidence exceeds threshold_kalman and whose pupil circle
\* is the null circle: the filter was not corrected.
C11_NullCircleFrame ==
    /\ AfterPredict
    /\ observation.confidence > threshold_kalman
    /\ pupil_circle.null
    /\ CallsOf("correct") = {}

\* C12: in every frame the filter's predict is called exactly once, with
\* the frame's timestamp, on both paths, and before any correct call.
C12_PredictOncePerFrame ==
    AfterPredict =>
        /\ Cardinality(CallsOf("predict")) = 1
        /\ cycle.kalman_calls[1] = "predict"
        /\ det.kalman_filter.predicted_at = observation.timestamp
        /\ observation.timestamp = now

\* C12 witness: a high-confidence frame in which the filter was queried and
\* then corrected.
C12_Witness ==
    /\ AfterPredict
    /\ ~cycle.search_invoked
    /\ cycle.kalman_calls = <<"predict", "correct">>
    /\ det.kalman_filter.predicted_at = now

(***************************************************************************)
(* The surface search and the null circle.                                 *)
(***************************************************************************)
\* The frame took the low-confidence path and its search has returned.
Searched == AfterPredict /\ cycle.search_invoked

\* C13: the surface search returns the null circle with confidence 0 when
\* its best guess is the null circle or no edges are found, and in every
\* case a confidence within [0, 1] (0..100 hundredths).
C13_SearchNullOrBounded ==
    Searched =>
        /\ (predict_from_kalman_filter(cycle.search_env).null \/ cycle.search_env.edges <= 0)
              => cycle.search = no_result
        /\ cycle.search.confidence \in 0..100
        /\ observation.confidence = cycle.search.confidence

\* C13 witness: a search with a usable best guess found no edges and
\* returned the null circle with confidence 0.
C13_Witness ==
    /\ Searched
    /\ ~predict_from_kalman_filter(cycle.search_env).null
    /\ cycle.search_env.edges <= 0
    /\ cycle.search = no_result

\* A search whose edge ratio exceeded 1 returned confidence 1.
C13_ClippedSearch ==
    /\ Searched
    /\ cycle.search_env.ratio > 100
    /\ cycle.search.confidence = 100

\* C14 as stated: a low-confidence frame whose search finds no edges ends
\* with a result whose diameter_3d is 0 and whose circle_3d is the null
\* circle.
C14_Original ==
    (/\ pc = "idle" /\ n_frames > 0
     /\ cycle.search_invoked
     /\ ~predict_from_kalman_filter(cycle.search_env).null
     /\ cycle.search_env.edges <= 0)
    => /\ result.returned
       /\ result.diameter_3d.zero
       /\ result.circle_3d.null

\* C14, the part the code keeps: such a frame returns a result, with
\* confidence 0 and the default ellipse; its diameter_3d is the long-term
\* model's prediction for the observation and is 0 only for a degenerate
\* ellipse; its circle_3d is null only without refraction correction.
C14_NoEdgesResult ==
    (/\ pc = "idle" /\ n_frames > 0
     /\ cycle.search_invoked
     /\ cycle.search_env.edges <= 0)
    => /\ result.returned
       /\ result.confidence = 0
       /\ result.ellipse.default
       /\ result.diameter_3d.zero <=> observation.invalid
       /\ result.circle_3d.null <=> ~result.sphere.corrected

\* A frame with a valid ellipse and low confidence, no edges found,
\* refraction correction applied: diameter_3d is not 0 and circle_3d is not
\* the null circle.
C14_NoEdgesFrame ==
    /\ pc = "idle" /\ n_frames > 0
    /\ cycle.search_invoked
    /\ cycle.search_env.edges <= 0
    /\ ~observation.invalid
    /\ result.sphere.corrected
    /\ ~result.diameter_3d.zero
    /\ ~result.circle_3d.null

(***************************************************************************)
(* The refits of a cycle and their schedules.                              *)
(***************************************************************************)
\* C21: when a storage is still empty after update_models has added the
\* frame's observation, no tier is refit in that call: no refit is run and
\* the three sphere centers are what they were before the call.
C21_EmptyStorageNoRefit ==
    (AfterUpdate /\ AnyStorageEmpty(det))
    => /\ cycle.refitted = <<>>
       /\ cycle.failed = "none"
       /\ \A tier \in Tiers : CenterOf(det, tier) = CenterOf(cycle.pre, tier)

\* C21 witness: the frame's observation went into the short-term storage
\* but is below the long-term threshold, so the long-term storages are
\* still empty after the adds.
C21_Witness ==
    /\ AfterUpdate
    /\ RetainedBy(det, "short") # RetainedBy(cycle.pre, "short")
    /\ RetainedBy(det, "long") = <<>>
    /\ RetainedBy(det, "ultra_long") = <<>>
    /\ cycle.refitted = <<>>

\* C22 as stated: in every cycle in which all three storages are non-empty
\* the short-term refit is run, whatever happens in the other refits.
C22_Original ==
    (AfterUpdate /\ ~AnyStorageEmpty(det))
    => (Refitted("short") \/ cycle.failed = "short")

\* C22 amended: in a cycle in which all three storages are non-empty the
\* short-term refit is run, whether or not the other schedules are due,
\* unless the ultra-long-term or the long-term refit of the cycle raises:
\* then the short-term refit is not run and the short-term center stays.
C22_ShortRefitUnlessEarlierFails ==
    (AfterUpdate /\ ~AnyStorageEmpty(det))
    => IF cycle.failed \in {"ultra_long", "long"}
         THEN /\ ~Refitted("short")
              /\ CenterOf(det, "short") = CenterOf(cycle.pre, "short")
         ELSE \/ cycle.failed = "short"
              \/ /\ Refitted("short")
                 /\ CenterOf(det, "short") =
                       [initial |-> FALSE, obs |-> RetainedBy(det, "short"),
                        prior |-> <<CenterOf(det, "long")>>]

\* C22 witness: a cycle past the warmup in which neither the long-term nor
\* the ultra-long-term schedule was due, and the short-term model alone
\* was refitted.
C22_Witness ==
    /\ AfterUpdate /\ ~AnyStorageEmpty(det)
    /\ cycle.refitted = <<"short">>
    /\ cycle.failed = "none"
    /\ CenterOf(det, "short") # CenterOf(cycle.pre, "short")
    /\ CenterOf(det, "long") = CenterOf(cycle.pre, "long")

\* The long-term refit raised in a cycle with all storages non-empty: the
\* short-term refit was not run.
C22_ShortSkipped ==
    /\ AfterUpdate /\ ~AnyStorageEmpty(det)
    /\ cycle.failed = "long"
    /\ ~Refitted("short")

\* The long-term schedule as it was when the frame came in says the frame's
\* timestamp is not due.
LongNotDue == ~is_update_due(cycle.pre.long_term_schedule, now).ret

\* C23: a long-term refit of a cycle comes after the cycle's
\* ultra-long-term refit and has the ultra-long-term center as it is after
\* the cycle as its prior; when the long-term schedule is not due the
\* long-term center stays, and a short-term refit of the cycle has that
\* center as its prior.
C23_RefitOrderAndPrior ==
    (AfterUpdate /\ ~AnyStorageEmpty(det))
    => /\ Refitted("long") =>
             /\ CenterOf(det, "long").prior = <<CenterOf(det, "ultra_long")>>
             /\ \A i, j \in 1..Len(cycle.refitted) :
                   (cycle.refitted[i] = "ultra_long" /\ cycle.refitted[j] = "long") => i < j
       /\ LongNotDue =>
             /\ ~Refitted("long")
             /\ CenterOf(det, "long") = CenterOf(cycle.pre, "long")
             /\ Refitted("short") =>
                   CenterOf(det, "short").prior = <<CenterOf(cycle.pre, "long")>>

\* C23 witness: both long-term tiers were refitted in the cycle, the
\* ultra-long-term center moved away from an earlier estimate, and the
\* long-term center has the new one as its prior.
C23_Witness ==
    /\ AfterUpdate
    /\ Refitted("ultra_long") /\ Refitted("long")
    /\ ~CenterOf(cycle.pre, "ultra_long").initial
    /\ CenterOf(det, "ultra_long") # CenterOf(cycle.pre, "ultra_long")
    /\ CenterOf(det, "long").prior = <<CenterOf(det, "ultra_long")>>

\* The long-term schedule was not due: the short-term refit took the
\* long-term center estimated in an earlier cycle.
C23_ReusedEstimate ==
    /\ AfterUpdate /\ ~AnyStorageEmpty(det)
    /\ LongNotDue
    /\ Refitted("short")
    /\ ~CenterOf(det, "long").initial
    /\ CenterOf(det, "short").prior = <<CenterOf(det, "long")>>

(***************************************************************************)
(* The refraction-corrected center of a TwoSphereModel of                  *)
(* two_sphere_model.py.                                                    *)
(***************************************************************************)
\* C24: after any sequence of set_sphere_center and reset calls on a
\* model, its corrected_sphere_center is the refraction correction of its
\* sphere_center.
C24_Original ==
    \A eye \in Eyes :
        legacy.models[eye].corrected_sphere_center
          = correct_sphere_center(legacy.models[eye].sphere_center)

\* A model that was given a fitted center and then reset: sphere_center is
\* the initial center again, corrected_sphere_center is still the
\* correction of the fitted one.
C24_StaleAfterReset ==
    \E eye \in Eyes :
        /\ legacy.models[eye].sphere_center = <<"initial">>
        /\ legacy.models[eye].observation_storage = <<>>
        /\ legacy.models[eye].corrected_sphere_center[2][1] = "fit"

(***************************************************************************)
(* The schedules inside update_models.                                     *)
(***************************************************************************)
ScheduledTiers == {"long", "ultra_long"}

ScheduleOf(d, tier) ==
    IF tier = "long" THEN d.long_term_schedule ELSE d.ult_long_term_schedule

\* The tier's schedule, as it was when the frame came in, is past its
\* warmup window at the frame's timestamp.
SteadyAtFrame(tier) ==
    /\ ScheduleOf(cycle.pre, tier).warmup_start # None
    /\ now - ScheduleOf(cycle.pre, tier).warmup_start
         >= ScheduleOf(cycle.pre, tier).warmup_duration

\* C25: in the steady phase a tier's refit that raised leaves the frame's
\* timestamp in its schedule as last_update, and in a frame no more than
\* update_interval after the last_update the schedule holds the tier's
\* refit is not attempted and the schedule stays as it is.
C25_FailedRefitNotRetriedEarly ==
    \A tier \in ScheduledTiers :
        (AfterUpdate /\ SteadyAtFrame(tier))
        => /\ cycle.failed = tier => ScheduleOf(det, tier).last_update = now
           /\ (/\ ScheduleOf(cycle.pre, tier).last_update # None
               /\ now - ScheduleOf(cycle.pre, tier).last_update
                    <= ScheduleOf(cycle.pre, tier).update_interval)
              => /\ ~Refitted(tier)
                 /\ cycle.failed # tier
                 /\ ScheduleOf(det, tier) = ScheduleOf(cycle.pre, tier)

\* C25 witness: the long-term model is still at its initial center though
\* its schedule holds a last_update, so the steady-phase refit attempted
\* at that time raised; in this frame, within update_interval of it, the
\* cycle ran its short-term refit and did not attempt the long-term one.
C25_Witness ==
    /\ AfterUpdate /\ ~AnyStorageEmpty(det)
    /\ SteadyAtFrame("long")
    /\ CenterOf(cycle.pre, "long").initial
    /\ cycle.pre.long_term_schedule.last_update # None
    /\ now - cycle.pre.long_term_schedule.last_update
         <= cycle.pre.long_term_schedule.update_interval
    /\ Refitted("short")
    /\ ~Refitted("long")

\* The long-term refit raised in the steady phase and the schedule has
\* recorded the attempt.
C25_FailureRecorded ==
    /\ AfterUpdate
    /\ SteadyAtFrame("long")
    /\ cycle.failed = "long"
    /\ det.long_term_schedule.last_update = now

\* The timestamp of the first cycle in which all three storages were
\* non-empty: the long-term storages reject what the short-term storage
\* rejects, and keep their first observation.
FirstFullCycle == RetainedBy(det, "ultra_long")[1].timestamp

\* C27 as stated: the schedules are not consulted in a cycle in which a
\* storage is empty and are cold until the first cycle in which none is,
\* and each schedule's warmup starts at that cycle's timestamp.
C27_Original ==
    AfterUpdate =>
      /\ AnyStorageEmpty(det) =>
            \A tier \in ScheduledTiers :
               /\ ScheduleOf(det, tier) = ScheduleOf(cycle.pre, tier)
               /\ ScheduleOf(det, tier).warmup_start = None
      /\ ~AnyStorageEmpty(det) =>
            \A tier \in ScheduledTiers :
               ScheduleOf(det, tier).warmup_start = FirstFullCycle

\* C27 amended: the schedules are not consulted in a cycle in which a
\* storage is empty and are cold until the first cycle in which none is.
\* The ultra-long-term schedule's warmup starts at that cycle's timestamp.
\* The long-term schedule is consulted only in a cycle whose
\* ultra-long-term refit does not raise: its warmup starts at the first
\* such cycle, and until then it is cold.
C27_ColdUntilConsulted ==
    AfterUpdate =>
      /\ AnyStorageEmpty(det) =>
            \A tier \in ScheduledTiers :
               /\ ScheduleOf(det, tier) = ScheduleOf(cycle.pre, tier)
               /\ ScheduleOf(det, tier).warmup_start = None
      /\ ~AnyStorageEmpty(det) =>
            /\ det.ult_long_term_schedule.warmup_start = FirstFullCycle
            /\ IF cycle.failed = "ultra_long"
                 THEN det.long_term_schedule = cycle.pre.long_term_schedule
                 ELSE /\ det.long_term_schedule.warmup_start # None
                      /\ cycle.pre.long_term_schedule.warmup_start = None
                           => det.long_term_schedule.warmup_start = now
            /\ det.long_term_schedule.warmup_start # None
                 => det.long_term_schedule.warmup_start >= FirstFullCycle

\* C27 witness: an earlier frame went into the short-term storage only;
\* in this one all storages are non-empty for the first time and both
\* schedules start their warmup at its timestamp.
C27_Witness ==
    /\ AfterUpdate /\ ~AnyStorageEmpty(det)
    /\ RetainedBy(cycle.pre, "short") # <<>>
    /\ RetainedBy(cycle.pre, "long") = <<>>
    /\ cycle.pre.long_term_schedule.warmup_start = None
    /\ cycle.pre.ult_long_term_schedule.warmup_start = None
    /\ det.long_term_schedule.warmup_start = now
    /\ det.ult_long_term_schedule.warmup_start = now
    /\ RetainedBy(det, "short")[1].timestamp < now

\* The ultra-long-term refit raised in the first cycle with all storages
\* non-empty: the long-term schedule's warmup started in a later cycle.
C27_LongStartsLater ==
    /\ AfterUpdate /\ ~AnyStorageEmpty(det)
    /\ det.long_term_schedule.warmup_start # None
    /\ det.long_term_schedule.warmup_start > FirstFullCycle
    /\ det.ult_long_term_schedule.warmup_start = FirstFullCycle

(***************************************************************************)
(* More claims about the schedule, checked under SpecSchedule.             *)
(***************************************************************************)
\* C26: warmup_start is unset until the first is_update_due call made while
\* not paused, is that call's time from then on and is changed by no later
\* call; with non-decreasing timestamps, once a call has fallen past the
\* warmup window every later call made while not paused falls past it too,
\* and returns true only when last_update is unset or more than
\* update_interval back.
C26_WarmupStartSetOnce ==
    /\ sched.warmup_start = sched_hist.first_time
    /\ sched_pre.warmup_start # None => sched.warmup_start = sched_pre.warmup_start
    /\ (sched_hist.monotone /\ LastIsDue /\ sched_hist.steady_seen
          /\ sched_last.phase # "paused")
        => /\ sched_last.t - sched.warmup_start >= sched.warmup_duration
           /\ sched_last.ret =>
                 \/ sched_pre.last_update = None
                 \/ sched_last.t - sched_pre.last_update > sched.update_interval

\* C26 witness: after a pause and a resume, past the warmup window, two
\* calls no more than update_interval apart: the first returned true, the
\* second false.
C26_Witness ==
    /\ sched_hist.monotone
    /\ ~sched_hist.only_due
    /\ LastIsDue /\ sched_last.phase = "steady" /\ ~sched_last.ret
    /\ sched_prev.name = "due" /\ sched_prev.phase = "steady" /\ sched_prev.ret
    /\ sched.warmup_start # None
    /\ sched.warmup_start < sched_prev.t

\* C28: an is_update_due call made while the schedule is paused leaves the
\* schedule as it was, and a schedule on which no call was yet made while
\* not paused is cold, after a resume too: warmup_start and last_update
\* are unset.
C28_PausedCallChangesNothing ==
    /\ (LastIsDue /\ sched_pre.paused) => (sched = sched_pre /\ ~sched_last.ret)
    /\ sched_hist.first_time = None =>
          (sched.warmup_start = None /\ sched.last_update = None)

\* C28 witness: pause(), then is_update_due while paused, then resume():
\* the schedule is cold.
C28_Witness ==
    /\ sched_last.name = "resume"
    /\ sched_prev.name = "due" /\ sched_prev.phase = "paused"
    /\ sched_hist.first_time = None
    /\ ~sched.paused
    /\ sched.warmup_start = None

\* The call after that resume is the first of the warmup: it returns true
\* and warmup_start is its time.
C28_ColdAfterResume ==
    /\ LastIsDue /\ sched_last.phase = "cold" /\ sched_last.ret
    /\ sched_prev.name = "resume"
    /\ ~sched_hist.only_due
    /\ sched.warmup_start = sched_last.t
    /\ sched_hist.clock = sched_last.t
    /\ sched_hist.calls >= 4

====
